---- MODULE Spec2Model ----
(***************************************************************************)
(* create-express-app: the orchestrator (program.action), promptUser,      *)
(* Generator and Installer, as one sequential state machine over a small   *)
(* file system, a console and a subprocess log.                            *)
(*                                                                         *)
(* Paths are sequences of path components relative to a directory; names   *)
(* typed by the user are sequences of characters.                          *)
(***************************************************************************)
EXTENDS Integers, Sequences, FiniteSets, TLC

VARIABLES
  pc,        \* position of the async action callback
  argv,      \* the optional [project-name] argument
  answers,   \* inquirer's answers hash, built question by question
  config,    \* const config of program.action (empty until promptUser returns)
  template,  \* templates/boilerplate, read-only
  disk,      \* process.cwd(): project name -> directory tree
  running,   \* the execa child that has not exited yet, or None
  procs,     \* subprocess events: start and exit, in order
  stdout,    \* console and spinner messages, in order
  calls,     \* the pipeline steps program.action has entered, in order
  exitCode   \* process exit code, or Running

vars == <<pc, argv, answers, config, template, disk, running, procs, stdout, calls, exitCode>>

\* ---------------------------------------------------------------- bounds
\* at most this many optional template entries are absent from the template
MaxMissing == 1

\* at most this many invocations of the CLI in one terminal session
MaxRuns == 2

\* ------------------------------------------------------------- constants
None == "None"
\* exitCode while the process has not exited
Running == 0 - 1
Undefined == "undefined"

\* names as character sequences
NameDemo == <<"d", "e", "m", "o">>
NameDefault == <<"m", "y", "-", "e", "x", "p", "r", "e", "s", "s", "-", "a", "p", "p">>
NameBad == <<"M", "y", " ", "A", "p", "p">>
NoArg == <<>>

Lower == {"a", "b", "c", "d", "e", "f", "g", "h", "i", "j", "k", "l", "m",
          "n", "o", "p", "q", "r", "s", "t", "u", "v", "w", "x", "y", "z"}
Digits == {"0", "1", "2", "3", "4", "5", "6", "7", "8", "9"}

\* what the user may type at the project-name question (<<>> is plain Enter)
TypedNames == {<<>>, NameDemo, NameBad}
\* what may be given on the command line
ArgNames == {NoArg, NameDemo, NameBad}
\* every directory name the run can touch
ProjectNames == {NameDemo, NameDefault}

\* --------------------------------------------------------------- prompts
\* validate of the projectName question: /^[a-z0-9-_]+$/
validate(input) ==
  /\ Len(input) > 0
  /\ \A i \in 1..Len(input) : input[i] \in Lower \cup Digits \cup {"-", "_"}

\* default of the projectName question: projectName || "my-express-app"
defaultName(projectName) == IF projectName = NoArg THEN NameDefault ELSE projectName

\* faulty variant: the orm question is always shown
when_Always(a) == TRUE

\* when of the orm question
when(a) == a["database"] = "postgresql"

\* property read of an object: undefined when the key is absent
Get(obj, key) == IF key \in DOMAIN obj THEN obj[key] ELSE Undefined

NoConfig == <<>>

\* ----------------------------------------------------------- file system
\* A tree maps the paths that exist under a directory to their contents;
\* <<>> is the directory itself, so the empty tree is "no such directory".
NoDir == <<>>
Dir == [tag |-> "dir"]
TplFile == [tag |-> "template"]
OldFile == [tag |-> "old"]

IsPrefix(p, q) == Len(p) <= Len(q) /\ \A i \in 1..Len(p) : q[i] = p[i]
Parent(p) == SubSeq(p, 1, Len(p) - 1)
\* path.basename
basename(p) == p[Len(p)]
Exists(tree, p) == p \in DOMAIN tree
IsDir(tree, p) == Exists(tree, p) /\ tree[p] = Dir

Restrict(tree, S) == [p \in S |-> tree[p]]

\* fs.remove: the entry and everything below it; no error when absent
remove(tree, p) == Restrict(tree, {q \in DOMAIN tree : ~IsPrefix(p, q)})

\* fs.writeFile / fs.writeJson: needs the parent directory, replaces a file
CanWrite(tree, p) == IsDir(tree, Parent(p)) /\ ~IsDir(tree, p)
writeFile(tree, p, data) == (p :> data) @@ tree

\* fs.ensureDir: creates the directory and its missing ancestors
Ancestors(p) == {SubSeq(p, 1, n) : n \in 0..Len(p)}
CanEnsureDir(tree, p) == \A a \in Ancestors(p) : Exists(tree, a) => tree[a] = Dir
ensureDir(tree, p) == [a \in Ancestors(p) |-> Dir] @@ tree

\* fs.pathExists
pathExists(d, name) == Exists(d[name], <<>>)

\* target paths (path.join(this.targetPath, ...), relative to targetPath)
dbPath == <<"src", "database">>
indexPath == dbPath \o <<"index.ts">>
mongooseConn == dbPath \o <<"mongoose.connection.ts">>
prismaConn == dbPath \o <<"prisma.connection.ts">>
drizzleConn == dbPath \o <<"drizzle.connection.ts">>
prismaDir == <<"prisma">>
schemaPath == prismaDir \o <<"schema.prisma">>
drizzleDir == <<"drizzle">>
drizzleConfig == <<"drizzle.config.ts">>
packageJsonPath == <<"package.json">>
Dockerfile == <<"Dockerfile">>
dockerCompose == <<"docker-compose.yml">>
dockerignore == <<".dockerignore">>
gitDir == <<".git">>
gitHead == gitDir \o <<"HEAD">>
gitConfig == gitDir \o <<"config">>
gitIndex == gitDir \o <<"index">>
gitCommit == gitDir \o <<"COMMIT_EDITMSG">>
nodeModules == <<"node_modules">>
distDir == <<"dist">>

ConnFiles == {mongooseConn, prismaConn, drizzleConn}
DockerFiles == {Dockerfile, dockerCompose, dockerignore}

\* ---------------------------------------------------------------- template
\* package.json of the boilerplate
TemplatePackageJson ==
  [tag |-> "json",
   name |-> <<"b", "o", "i", "l", "e", "r", "p", "l", "a", "t", "e">>,
   version |-> "1.0.0",
   scripts |-> ("dev" :> "tsx watch src/index.ts") @@ ("build" :> "tsc"),
   dependencies |-> {"express"},
   devDependencies |-> {"typescript"}]

\* the boilerplate with every entry the generator knows about
FullTemplate ==
  (<<>> :> Dir) @@ (<<"src">> :> Dir) @@ (dbPath :> Dir)
  @@ (indexPath :> TplFile)
  @@ (mongooseConn :> TplFile) @@ (prismaConn :> TplFile) @@ (drizzleConn :> TplFile)
  @@ (prismaDir :> Dir) @@ (schemaPath :> TplFile)
  @@ (drizzleDir :> Dir) @@ (drizzleConfig :> TplFile)
  @@ (packageJsonPath :> TemplatePackageJson)
  @@ (Dockerfile :> TplFile) @@ (dockerCompose :> TplFile) @@ (dockerignore :> TplFile)
  @@ (gitDir :> Dir) @@ (gitHead :> TplFile)
  @@ (nodeModules :> Dir) @@ (nodeModules \o <<"express">> :> TplFile)
  @@ (distDir :> Dir) @@ (distDir \o <<"index.js">> :> TplFile)

\* entries a template may lack
OptionalEntries ==
  ConnFiles \cup DockerFiles
  \cup {indexPath, prismaDir, drizzleDir, drizzleConfig, packageJsonPath,
        gitDir, nodeModules, distDir}

RECURSIVE removeAll(_, _)
removeAll(tree, S) ==
  IF S = {} THEN tree
  ELSE LET p == CHOOSE x \in S : TRUE IN removeAll(remove(tree, p), S \ {p})

Templates ==
  {removeAll(FullTemplate, M) :
     M \in {X \in SUBSET OptionalEntries : Cardinality(X) <= MaxMissing}}

\* a directory that was there before the run
OldTree == (<<>> :> Dir) @@ (<<"old.txt">> :> OldFile)

\* ---------------------------------------------------------------- Generator
\* one file-system call of the generator
Rm(p) == [op |-> "remove", path |-> p, data |-> Dir]
Wr(p, d) == [op |-> "writeFile", path |-> p, data |-> d]
Mk(p) == [op |-> "ensureDir", path |-> p, data |-> Dir]

CanDo(tree, o) ==
  CASE o.op = "remove" -> TRUE
    [] o.op = "writeFile" -> CanWrite(tree, o.path)
    [] o.op = "ensureDir" -> CanEnsureDir(tree, o.path)

ApplyOp(tree, o) ==
  CASE o.op = "remove" -> remove(tree, o.path)
    [] o.op = "writeFile" -> writeFile(tree, o.path, o.data)
    [] o.op = "ensureDir" -> ensureDir(tree, o.path)

\* the tree after the first k calls of ops
RECURSIVE ApplyOps(_, _, _)
ApplyOps(tree, ops, k) ==
  IF k = 0 THEN tree ELSE ApplyOp(ApplyOps(tree, ops, k - 1), ops[k])

\* the first k calls of ops can all succeed
Feasible(tree, ops, k) ==
  \A i \in 1..k : CanDo(ApplyOps(tree, ops, i - 1), ops[i])

\* copyTemplate's filter
filter(src) == basename(src) # "node_modules" /\ basename(src) # "dist"

\* fs.copy asks the filter for every entry on the way down to p
passesFilter(p) == \A n \in 1..Len(p) : filter(SubSeq(p, 1, n))

\* the order in which fs.copy visits the boilerplate
CopyOrder ==
  << <<>>, dockerignore, gitDir, gitHead, Dockerfile, distDir, distDir \o <<"index.js">>,
     dockerCompose, drizzleDir, drizzleConfig, nodeModules, nodeModules \o <<"express">>,
     packageJsonPath, prismaDir, schemaPath, <<"src">>, dbPath, drizzleConn, indexPath,
     mongooseConn, prismaConn >>

\* what fs.copy has written after visiting the first n entries
copied(tpl, n) ==
  Restrict(tpl, {p \in DOMAIN tpl : passesFilter(p) /\ \E i \in 1..n : CopyOrder[i] = p})

\* src/database/index.ts as written by configureDatabase: a header comment
\* and one `export * from` with a module specifier relative to the file
Barrel(title, from) == [tag |-> "barrel", title |-> title, exports |-> <<from>>]

\* prisma/schema.prisma as written by generatePrismaSchema
schemaContent ==
  [tag |-> "schema",
   generator |-> [name |-> "client", provider |-> "prisma-client-js"],
   datasource |-> [name |-> "db", provider |-> "postgresql", url |-> "env(DATABASE_URL)"]]

generatePrismaSchemaOps == << Mk(prismaDir), Wr(schemaPath, schemaContent) >>

\* faulty variant: the mongodb branch forgets to remove drizzle.connection.ts
configureDatabaseOps_KeepsDrizzle(cfg) ==
  IF Get(cfg, "database") = "mongodb" THEN
    << Rm(prismaConn), Rm(prismaDir), Rm(drizzleDir), Rm(drizzleConfig),
       Wr(indexPath, Barrel("MongoDB with Mongoose", <<".", "mongoose.connection">>)) >>
  ELSE IF Get(cfg, "database") = "postgresql" THEN
    << Rm(mongooseConn) >> \o
    (IF Get(cfg, "orm") = "prisma" THEN
       << Rm(drizzleConn), Rm(drizzleDir), Rm(drizzleConfig) >>
       \o generatePrismaSchemaOps
       \o << Wr(indexPath, Barrel("PostgreSQL with Prisma", <<".", "prisma.connection">>)) >>
     ELSE IF Get(cfg, "orm") = "drizzle" THEN
       << Rm(prismaConn), Rm(prismaDir),
          Wr(indexPath, Barrel("PostgreSQL with Drizzle", <<".", "drizzle.connection">>)) >>
     ELSE << >>)
  ELSE << >>

configureDatabaseOps(cfg) ==
  IF Get(cfg, "database") = "mongodb" THEN
    << Rm(prismaConn), Rm(drizzleConn), Rm(prismaDir), Rm(drizzleDir), Rm(drizzleConfig),
       Wr(indexPath, Barrel("MongoDB with Mongoose", <<".", "mongoose.connection">>)) >>
  ELSE IF Get(cfg, "database") = "postgresql" THEN
    << Rm(mongooseConn) >> \o
    (IF Get(cfg, "orm") = "prisma" THEN
       << Rm(drizzleConn), Rm(drizzleDir), Rm(drizzleConfig) >>
       \o generatePrismaSchemaOps
       \o << Wr(indexPath, Barrel("PostgreSQL with Prisma", <<".", "prisma.connection">>)) >>
     ELSE IF Get(cfg, "orm") = "drizzle" THEN
       << Rm(prismaConn), Rm(prismaDir),
          Wr(indexPath, Barrel("PostgreSQL with Drizzle", <<".", "drizzle.connection">>)) >>
     ELSE << >>)
  ELSE << >>

NoScripts == [s \in {} |-> ""]

\* faulty variant: the prisma scripts are added for every database
dbScripts_Always(cfg) ==
  IF Get(cfg, "orm") = "drizzle" THEN
    ("db:push" :> "drizzle-kit push:pg") @@ ("db:generate" :> "drizzle-kit generate:pg")
    @@ ("db:studio" :> "drizzle-kit studio")
  ELSE
    ("db:migrate" :> "prisma migrate dev") @@ ("db:generate" :> "prisma generate")
    @@ ("db:studio" :> "prisma studio")

\* the script entries updatePackageJson adds
dbScripts(cfg) ==
  IF Get(cfg, "database") = "postgresql" THEN
    IF Get(cfg, "orm") = "prisma" THEN
      ("db:migrate" :> "prisma migrate dev") @@ ("db:generate" :> "prisma generate")
      @@ ("db:studio" :> "prisma studio")
    ELSE IF Get(cfg, "orm") = "drizzle" THEN
      ("db:push" :> "drizzle-kit push:pg") @@ ("db:generate" :> "drizzle-kit generate:pg")
      @@ ("db:studio" :> "drizzle-kit studio")
    ELSE NoScripts
  ELSE NoScripts

\* the manifest updatePackageJson writes back
updatedPackageJson(pkg, cfg) ==
  [pkg EXCEPT !.name = cfg["projectName"],
              !.version = "0.1.0",
              !.scripts = dbScripts(cfg) @@ pkg.scripts]

\* faulty variant: .dockerignore is forgotten
removeDockerFilesOps_Two == << Rm(Dockerfile), Rm(dockerCompose) >>

removeDockerFilesOps == << Rm(Dockerfile), Rm(dockerCompose), Rm(dockerignore) >>

\* faulty variant: the template's .git is left in place
cleanGitFilesOps_Keeps == << >>

cleanGitFilesOps == << Rm(gitDir) >>

\* ---------------------------------------------------------------- Installer
\* const deps of installDatabaseDependencies
deps(cfg) ==
  IF Get(cfg, "database") = "mongodb" THEN << "mongoose" >>
  ELSE IF Get(cfg, "database") = "postgresql" THEN
    IF Get(cfg, "orm") = "prisma" THEN << "@prisma/client@^6.0.0" >>
    ELSE IF Get(cfg, "orm") = "drizzle" THEN << "drizzle-orm", "pg" >>
    ELSE << >>
  ELSE << >>

\* const devDeps of installDatabaseDependencies
devDeps(cfg) ==
  IF Get(cfg, "database") = "postgresql" THEN
    IF Get(cfg, "orm") = "prisma" THEN << "prisma@^6.0.0" >>
    ELSE IF Get(cfg, "orm") = "drizzle" THEN << "drizzle-kit", "@types/pg" >>
    ELSE << >>
  ELSE << >>

\* the condition of runPostInstallTasks
needsPrismaGenerate(cfg) ==
  Get(cfg, "database") = "postgresql" /\ Get(cfg, "orm") = "prisma"

\* faulty variant: the post-install task runs before the dev dependencies are installed
InstallPlan_PostInstallEarly(cfg) ==
  << "npm_install" >>
  \o (IF Len(deps(cfg)) > 0 THEN << "npm_deps" >> ELSE << >>)
  \o (IF needsPrismaGenerate(cfg) THEN << "prisma_generate" >> ELSE << >>)
  \o (IF Len(devDeps(cfg)) > 0 THEN << "npm_devDeps" >> ELSE << >>)

\* the execa calls of installDependencies, in program order
InstallPlan(cfg) ==
  << "npm_install" >>
  \o (IF Len(deps(cfg)) > 0 THEN << "npm_deps" >> ELSE << >>)
  \o (IF Len(devDeps(cfg)) > 0 THEN << "npm_devDeps" >> ELSE << >>)
  \o (IF needsPrismaGenerate(cfg) THEN << "prisma_generate" >> ELSE << >>)

\* the execa calls of initGit, in program order
GitPlan == << "git_init", "git_email", "git_name", "git_add", "git_commit" >>

InstallSites == {"npm_install", "npm_deps", "npm_devDeps", "prisma_generate"}
GitSites == {GitPlan[i] : i \in 1..Len(GitPlan)}

\* the command line of each execa call
Command(site, cfg) ==
  CASE site = "npm_install" -> << "npm", "install" >>
    [] site = "npm_deps" -> << "npm", "install" >> \o deps(cfg)
    [] site = "npm_devDeps" -> << "npm", "install", "--save-dev" >> \o devDeps(cfg)
    [] site = "prisma_generate" -> << "npx", "prisma", "generate" >>
    [] site = "git_init" -> << "git", "init" >>
    [] site = "git_email" -> << "git", "config", "user.email", "user@example.com" >>
    [] site = "git_name" -> << "git", "config", "user.name", "User" >>
    [] site = "git_add" -> << "git", "add", "." >>
    [] site = "git_commit" ->
         << "git", "commit", "-m", "feat: initial project setup from create-express-app" >>

Range(s) == {s[i] : i \in 1..Len(s)}
IndexOf(s, x) == CHOOSE i \in 1..Len(s) : s[i] = x

\* what a child process that exits with 0 has done in cwd
Effect(site, cfg, tree) ==
  CASE site = "npm_install" ->
         (<<"package-lock.json">> :> [tag |-> "lock"]) @@ ensureDir(tree, nodeModules)
    [] site = "npm_deps" ->
         [tree EXCEPT ![packageJsonPath].dependencies = @ \cup Range(deps(cfg))]
    [] site = "npm_devDeps" ->
         [tree EXCEPT ![packageJsonPath].devDependencies = @ \cup Range(devDeps(cfg))]
    [] site = "prisma_generate" ->
         (nodeModules \o <<".prisma">> :> [tag |-> "prisma-client"]) @@ tree
    [] site = "git_init" ->
         IF Exists(tree, gitHead) THEN tree
         ELSE (gitHead :> [tag |-> "fresh"]) @@ ensureDir(tree, gitDir)
    [] site = "git_email" ->
         (gitConfig :> [tag |-> "gitconfig", key |-> "user.email"]) @@ tree
    [] site = "git_name" ->
         (gitConfig :> [tag |-> "gitconfig", key |-> "user.name"]) @@ tree
    [] site = "git_add" ->
         (gitIndex :> [tag |-> "index"]) @@ tree
    [] site = "git_commit" ->
         (gitCommit :> [tag |-> "commit"]) @@ tree

\* what the child needs in cwd to exit with 0
CanSucceed(site, tree) ==
  CASE site \in {"npm_install", "npm_deps", "npm_devDeps"} -> Exists(tree, packageJsonPath)
    [] site = "prisma_generate" -> Exists(tree, schemaPath) /\ IsDir(tree, nodeModules)
    [] site = "git_init" -> IsDir(tree, <<>>)
    [] site \in {"git_email", "git_name", "git_add", "git_commit"} -> IsDir(tree, gitDir)

Start(site, cfg) == << "start", Command(site, cfg) >>
Exit(site, cfg, code) == << "exit", Command(site, cfg), code >>

\* ------------------------------------------------------------------- state
PromptSites == {"q_projectName", "q_database", "q_orm", "q_includeDocker"}

\* path.join(process.cwd(), config.projectName), as a key of disk
targetPath(cfg) == cfg["projectName"]

Init ==
  /\ pc = "action"
  /\ argv \in ArgNames
  /\ answers = NoConfig
  /\ config = NoConfig
  /\ template \in Templates
  /\ disk \in [ProjectNames -> {NoDir, OldTree}]
  /\ running = None
  /\ procs = << >>
  /\ stdout = << >>
  /\ calls = << >>
  /\ exitCode = Running

\* faulty variant: the catch block exits with code 0
catch_ExitZero(msgs) ==
  /\ stdout' = stdout \o msgs \o << "Error:" >>
  /\ exitCode' = 0
  /\ pc' = "exited"

\* the catch block of program.action: print the error, process.exit(1)
catch(msgs) ==
  /\ stdout' = stdout \o msgs \o << "Error:" >>
  /\ exitCode' = 1
  /\ pc' = "exited"

\* ----------------------------------------------------------------- actions
\* program.action starts: welcome message, promptUser shows the first question
action ==
  /\ pc = "action"
  /\ stdout' = Append(stdout, "Create Express App")
  /\ calls' = Append(calls, "promptUser")
  /\ pc' = "q_projectName"
  /\ UNCHANGED <<argv, answers, config, template, disk, running, procs, exitCode>>

\* the projectName question: Enter takes the default, a rejected value re-prompts
askProjectName ==
  /\ pc = "q_projectName"
  /\ \E typed \in TypedNames :
       LET input == IF typed = << >> THEN defaultName(argv) ELSE typed IN
       IF validate(input)
       THEN /\ answers' = ("projectName" :> input) @@ answers
            /\ pc' = "q_database"
       ELSE UNCHANGED <<answers, pc>>
  /\ UNCHANGED <<argv, config, template, disk, running, procs, stdout, calls, exitCode>>

\* the database question; the orm question is shown only when its `when` holds
askDatabase ==
  /\ pc = "q_database"
  /\ \E choice \in {"mongodb", "postgresql"} :
       /\ answers' = ("database" :> choice) @@ answers
       /\ pc' = IF when(answers') THEN "q_orm" ELSE "q_includeDocker"
  /\ UNCHANGED <<argv, config, template, disk, running, procs, stdout, calls, exitCode>>

\* the orm question
askOrm ==
  /\ pc = "q_orm"
  /\ \E choice \in {"prisma", "drizzle"} :
       answers' = ("orm" :> choice) @@ answers
  /\ pc' = "q_includeDocker"
  /\ UNCHANGED <<argv, config, template, disk, running, procs, stdout, calls, exitCode>>

\* the includeDocker question; promptUser returns the answers and the
\* orchestrator asks whether the target path exists
askIncludeDocker ==
  /\ pc = "q_includeDocker"
  /\ \E choice \in BOOLEAN :
       answers' = ("includeDocker" :> choice) @@ answers
  /\ config' = answers'
  /\ calls' = Append(calls, "pathExists")
  /\ pc' = "pathExists"
  /\ UNCHANGED <<argv, template, disk, running, procs, stdout, exitCode>>

\* inquirer.prompt rejects (no TTY, closed input): the catch block runs
promptRejects ==
  /\ pc \in PromptSites
  /\ catch(<< >>)
  /\ UNCHANGED <<argv, answers, config, template, disk, running, procs, calls>>

\* faulty variant: the check prints the message but goes on to generate
checkTarget_NoExit ==
  /\ pc = "pathExists"
  /\ stdout' = stdout \o (IF pathExists(disk, targetPath(config))
                           THEN << "already exists!" >> ELSE << >>)
                     \o << "Creating project structure..." >>
  /\ calls' = Append(calls, "generate")
  /\ pc' = "copyTemplate"
  /\ UNCHANGED <<argv, answers, config, template, disk, running, procs, exitCode>>

\* the target-directory check of program.action
checkTarget ==
  /\ pc = "pathExists"
  /\ IF pathExists(disk, targetPath(config))
     THEN /\ stdout' = Append(stdout, "already exists!")
          /\ exitCode' = 1
          /\ pc' = "exited"
          /\ UNCHANGED calls
     ELSE /\ stdout' = Append(stdout, "Creating project structure...")
          /\ calls' = Append(calls, "generate")
          /\ pc' = "copyTemplate"
          /\ UNCHANGED exitCode
  /\ UNCHANGED <<argv, answers, config, template, disk, running, procs>>

\* Generator.copyTemplate: fs.copy completes, or fails after n entries
copyTemplate ==
  /\ pc = "copyTemplate"
  /\ \E n \in 0..Len(CopyOrder) :
       /\ disk' = [disk EXCEPT ![targetPath(config)] = copied(template, n) @@ @]
       /\ \/ /\ n = Len(CopyOrder)
             /\ pc' = "configureDatabase"
             /\ UNCHANGED <<stdout, exitCode>>
          \/ catch(<< >>)
  /\ UNCHANGED <<argv, answers, config, template, running, procs, calls>>

\* Generator.configureDatabase: all its calls succeed, or the k+1st throws
configureDatabase ==
  /\ pc = "configureDatabase"
  /\ LET ops == configureDatabaseOps(config)
         tree == disk[targetPath(config)] IN
     \E k \in 0..Len(ops) :
       /\ Feasible(tree, ops, k)
       /\ disk' = [disk EXCEPT ![targetPath(config)] = ApplyOps(tree, ops, k)]
       /\ IF k = Len(ops)
          THEN pc' = "updatePackageJson" /\ UNCHANGED <<stdout, exitCode>>
          ELSE catch(<< >>)
  /\ UNCHANGED <<argv, answers, config, template, running, procs, calls>>

\* Generator.updatePackageJson: readJson, edit, writeJson; then generate
\* goes on to removeDockerFiles or to cleanGitFiles
updatePackageJson ==
  /\ pc = "updatePackageJson"
  /\ LET tree == disk[targetPath(config)] IN
     \/ /\ Exists(tree, packageJsonPath)
        /\ disk' = [disk EXCEPT ![targetPath(config)] =
                      writeFile(tree, packageJsonPath,
                                updatedPackageJson(tree[packageJsonPath], config))]
        /\ pc' = IF ~config["includeDocker"] THEN "removeDockerFiles" ELSE "cleanGitFiles"
        /\ UNCHANGED <<stdout, exitCode>>
     \/ /\ catch(<< >>)
        /\ UNCHANGED disk
  /\ UNCHANGED <<argv, answers, config, template, running, procs, calls>>

\* Generator.removeDockerFiles
removeDockerFiles ==
  /\ pc = "removeDockerFiles"
  /\ LET ops == removeDockerFilesOps
         tree == disk[targetPath(config)] IN
     \E k \in 0..Len(ops) :
       /\ disk' = [disk EXCEPT ![targetPath(config)] = ApplyOps(tree, ops, k)]
       /\ IF k = Len(ops)
          THEN pc' = "cleanGitFiles" /\ UNCHANGED <<stdout, exitCode>>
          ELSE catch(<< >>)
  /\ UNCHANGED <<argv, answers, config, template, running, procs, calls>>

\* Generator.cleanGitFiles; generate returns and installDependencies spawns
\* the base npm install
cleanGitFiles ==
  /\ pc = "cleanGitFiles"
  /\ LET ops == cleanGitFilesOps
         tree == disk[targetPath(config)] IN
     \/ /\ disk' = [disk EXCEPT ![targetPath(config)] = ApplyOps(tree, ops, Len(ops))]
        /\ stdout' = stdout \o << "Project structure created", "Installing dependencies..." >>
        /\ calls' = Append(calls, "installDependencies")
        /\ running' = "npm_install"
        /\ procs' = Append(procs, Start("npm_install", config))
        /\ pc' = "npm_install"
        /\ UNCHANGED exitCode
     \/ /\ catch(<< >>)
        /\ UNCHANGED <<disk, calls, running, procs>>
  /\ UNCHANGED <<argv, answers, config, template>>

\* spinner lines printed when the call at site has exited with 0 and next follows
spinnerAfter(site, next) ==
  (IF site = "npm_install" THEN << "Installing database dependencies..." >> ELSE << >>)
  \o (IF site = "prisma_generate" THEN << "Prisma Client generated" >> ELSE << >>)
  \o (IF next = "prisma_generate" THEN << "Generating Prisma Client..." >> ELSE << >>)

\* spinner lines printed by the catch blocks of the installer
spinnerFail(site) ==
  (IF site = "prisma_generate" THEN << "Failed to generate Prisma Client" >> ELSE << >>)
  \o << "Failed to install dependencies" >>

\* the lines of showSuccessMessage
showSuccessMessage(cfg) ==
  << "Success! Your project is ready!", "cd <projectName>", "cp .env.example .env" >>
  \o (IF Get(cfg, "database") = "mongodb" THEN << "Make sure MongoDB is running" >>
      ELSE IF Get(cfg, "database") = "postgresql" THEN
        << "Make sure PostgreSQL is running" >>
        \o (IF Get(cfg, "orm") = "prisma" THEN << "npx prisma migrate dev" >>
            ELSE IF Get(cfg, "orm") = "drizzle"
              THEN << "npx drizzle-kit generate:pg", "npx drizzle-kit push:pg" >>
            ELSE << >>)
      ELSE << >>)
  \o << "npm run dev", "Happy coding!" >>

\* faulty variant: a failed child's project directory is cleaned up
AfterFailure_Cleanup(site, cfg, tree) == {remove(tree, << >>)}

\* a child exits with a failure: it may or may not have left its changes
AfterFailure(site, cfg, tree) ==
  {tree} \cup (IF CanSucceed(site, tree) THEN {Effect(site, cfg, tree)} ELSE {})

\* faulty variant: installDependencies warns like initGit instead of rethrowing
installDependencies_NoRethrow ==
  /\ pc \in InstallSites
  /\ LET plan == InstallPlan(config)
         i == IndexOf(plan, pc)
         next == IF i < Len(plan) THEN plan[i + 1] ELSE "git_init"
         tree == disk[targetPath(config)] IN
     \/ /\ CanSucceed(pc, tree)
        /\ disk' = [disk EXCEPT ![targetPath(config)] = Effect(pc, config, tree)]
        /\ procs' = procs \o << Exit(pc, config, 0), Start(next, config) >>
        /\ running' = next
        /\ pc' = next
        /\ IF i < Len(plan)
           THEN /\ stdout' = stdout \o spinnerAfter(pc, next)
                /\ UNCHANGED calls
           ELSE /\ stdout' = stdout \o spinnerAfter(pc, next)
                               \o << "Dependencies installed", "Initializing git repository..." >>
                /\ calls' = Append(calls, "initGit")
        /\ UNCHANGED exitCode
     \/ /\ UNCHANGED disk
        /\ procs' = procs \o << Exit(pc, config, 1), Start("git_init", config) >>
        /\ running' = "git_init"
        /\ stdout' = stdout \o spinnerFail(pc) \o << "Initializing git repository..." >>
        /\ calls' = Append(calls, "initGit")
        /\ pc' = "git_init"
        /\ UNCHANGED exitCode
  /\ UNCHANGED <<argv, answers, config, template>>

\* Installer.installDependencies: the running npm/npx child exits; on 0 the
\* next execa call is made (or initGit is entered), otherwise the error is
\* rethrown to program.action
installDependencies ==
  /\ pc \in InstallSites
  /\ LET plan == InstallPlan(config)
         i == IndexOf(plan, pc)
         next == IF i < Len(plan) THEN plan[i + 1] ELSE "git_init"
         tree == disk[targetPath(config)] IN
     \/ /\ CanSucceed(pc, tree)
        /\ disk' = [disk EXCEPT ![targetPath(config)] = Effect(pc, config, tree)]
        /\ procs' = procs \o << Exit(pc, config, 0), Start(next, config) >>
        /\ running' = next
        /\ pc' = next
        /\ IF i < Len(plan)
           THEN /\ stdout' = stdout \o spinnerAfter(pc, next)
                /\ UNCHANGED calls
           ELSE /\ stdout' = stdout \o spinnerAfter(pc, next)
                               \o << "Dependencies installed", "Initializing git repository..." >>
                /\ calls' = Append(calls, "initGit")
        /\ UNCHANGED exitCode
     \/ /\ \E t \in AfterFailure(pc, config, tree) :
             disk' = [disk EXCEPT ![targetPath(config)] = t]
        /\ procs' = Append(procs, Exit(pc, config, 1))
        /\ running' = None
        /\ catch(spinnerFail(pc))
        /\ UNCHANGED calls
  /\ UNCHANGED <<argv, answers, config, template>>

\* faulty variant: initGit rethrows the failure to program.action
initGit_Rethrows ==
  /\ pc \in GitSites
  /\ LET i == IndexOf(GitPlan, pc)
         tree == disk[targetPath(config)] IN
     \/ /\ CanSucceed(pc, tree)
        /\ disk' = [disk EXCEPT ![targetPath(config)] = Effect(pc, config, tree)]
        /\ IF i < Len(GitPlan)
           THEN /\ procs' = procs \o << Exit(pc, config, 0), Start(GitPlan[i + 1], config) >>
                /\ running' = GitPlan[i + 1]
                /\ pc' = GitPlan[i + 1]
                /\ UNCHANGED <<stdout, calls, exitCode>>
           ELSE /\ procs' = Append(procs, Exit(pc, config, 0))
                /\ running' = None
                /\ stdout' = stdout \o << "Git repository initialized" >>
                               \o showSuccessMessage(config)
                /\ calls' = Append(calls, "showSuccessMessage")
                /\ exitCode' = 0
                /\ pc' = "exited"
     \/ /\ UNCHANGED <<disk, calls>>
        /\ procs' = Append(procs, Exit(pc, config, 1))
        /\ running' = None
        /\ catch(<< "Failed to initialize git" >>)
  /\ UNCHANGED <<argv, answers, config, template>>

\* Installer.initGit: the running git child exits; on 0 the next git command
\* is run, a failure is turned into a warning; after the last command or the
\* warning program.action prints the success message and the process ends
initGit ==
  /\ pc \in GitSites
  /\ LET i == IndexOf(GitPlan, pc)
         tree == disk[targetPath(config)] IN
     \/ /\ CanSucceed(pc, tree)
        /\ disk' = [disk EXCEPT ![targetPath(config)] = Effect(pc, config, tree)]
        /\ IF i < Len(GitPlan)
           THEN /\ procs' = procs \o << Exit(pc, config, 0), Start(GitPlan[i + 1], config) >>
                /\ running' = GitPlan[i + 1]
                /\ pc' = GitPlan[i + 1]
                /\ UNCHANGED <<stdout, calls, exitCode>>
           ELSE /\ procs' = Append(procs, Exit(pc, config, 0))
                /\ running' = None
                /\ stdout' = stdout \o << "Git repository initialized" >>
                               \o showSuccessMessage(config)
                /\ calls' = Append(calls, "showSuccessMessage")
                /\ exitCode' = 0
                /\ pc' = "exited"
     \/ /\ \E t \in AfterFailure(pc, config, tree) :
             disk' = [disk EXCEPT ![targetPath(config)] = t]
        /\ procs' = Append(procs, Exit(pc, config, 1))
        /\ running' = None
        /\ stdout' = stdout \o << "Failed to initialize git",
                                  "You can initialize git manually later" >>
                       \o showSuccessMessage(config)
        /\ calls' = Append(calls, "showSuccessMessage")
        /\ exitCode' = 0
        /\ pc' = "exited"
  /\ UNCHANGED <<argv, answers, config, template>>

Next ==
  \/ action
  \/ askProjectName
  \/ askDatabase
  \/ askOrm
  \/ askIncludeDocker
  \/ promptRejects
  \/ checkTarget
  \/ copyTemplate
  \/ configureDatabase
  \/ updatePackageJson
  \/ removeDockerFiles
  \/ cleanGitFiles
  \/ installDependencies
  \/ initGit

Spec == Init /\ [][Next]_vars

\* the invocations shown on the terminal so far
Runs == Cardinality({i \in 1..Len(stdout) : stdout[i] = "Create Express App"})

\* bin/cli.cjs is run again in the same directory once the process has
\* exited: a new process with a new argument, the disk as it was left
rerun ==
  /\ pc = "exited"
  /\ Runs < MaxRuns
  /\ pc' = "action"
  /\ argv' \in ArgNames
  /\ answers' = NoConfig
  /\ config' = NoConfig
  /\ running' = None
  /\ procs' = << >>
  /\ calls' = << >>
  /\ exitCode' = Running
  /\ UNCHANGED <<template, disk, stdout>>

\* one invocation after another
NextRerun ==
  \/ Next
  \/ rerun

\* the session starts with the complete boilerplate
InitRerun ==
  /\ Init
  /\ template = FullTemplate

SpecRerun == InitRerun /\ [][NextRerun]_vars


TypeOK ==
  /\ pc \in {"action", "pathExists", "copyTemplate", "configureDatabase",
             "updatePackageJson", "removeDockerFiles", "cleanGitFiles", "exited"}
            \cup PromptSites \cup InstallSites \cup GitSites
  /\ exitCode \in {Running, 0, 1}
  /\ running \in {None} \cup InstallSites \cup GitSites

\* ------------------------------------------------------------------ claims
Last(s) == s[Len(s)]
Entered(step) == step \in Range(calls)
ConfigKnown == DOMAIN config # {}
Target == disk[targetPath(config)]
\* generate() has returned to program.action
GenerateCompleted == Entered("installDependencies")
\* generate() has just returned: nothing else has touched the target yet
JustGenerated == pc = "npm_install"
IsMongo == config["database"] = "mongodb"
IsPrisma == config["database"] = "postgresql" /\ Get(config, "orm") = "prisma"
IsDrizzle == config["database"] = "postgresql" /\ Get(config, "orm") = "drizzle"
ValidConfig == IsMongo \/ IsPrisma \/ IsDrizzle

\* the file a module specifier of src/database/index.ts resolves to
Resolve(from) == dbPath \o << from[2] \o ".ts" >>

Surviving == {f \in ConnFiles : Exists(Target, f)}

\* C1: from a template holding all three connection files, once generate()
\* has completed exactly one connection file is left in the target, the one
\* of the chosen database/orm, and src/database/index.ts re-exports that
\* file and nothing else.
C1_OneConnectionSurvives ==
  (GenerateCompleted /\ ValidConfig /\ ConnFiles \subseteq DOMAIN template) =>
    /\ Cardinality(Surviving) = 1
    /\ IsMongo => Surviving = {mongooseConn}
    /\ IsPrisma => Surviving = {prismaConn}
    /\ IsDrizzle => Surviving = {drizzleConn}
    /\ Exists(Target, indexPath)
    /\ Target[indexPath].tag = "barrel"
    /\ {Resolve(Target[indexPath].exports[i]) :
          i \in 1..Len(Target[indexPath].exports)} = Surviving

C1_Witness ==
  /\ GenerateCompleted
  /\ ConnFiles \subseteq DOMAIN template
  /\ IsDrizzle
  /\ Surviving = {drizzleConn}
  /\ Target[indexPath].exports = << <<".", "drizzle.connection">> >>

\* C2: a config returned by promptUser has orm exactly when its database is
\* postgresql, the orm question is on screen only after a postgresql answer,
\* and the returned config is never changed afterwards.
C2_OrmIffPostgresql ==
  /\ [](ConfigKnown => (("orm" \in DOMAIN config) <=> (config["database"] = "postgresql")))
  /\ [](pc = "q_orm" => answers["database"] = "postgresql")
  /\ [](pc = "q_includeDocker" =>
          (("orm" \in DOMAIN answers) <=> (answers["database"] = "postgresql")))
  /\ [][ConfigKnown => config' = config]_vars

C2_Witness ==
  /\ pc = "exited"
  /\ exitCode = 0
  /\ config["database"] = "postgresql"
  /\ "orm" \in DOMAIN config
  /\ config["orm"] = "drizzle"

\* C3: when the target directory exists at the orchestrator's check, the
\* process exits with code 1 at once: the disk is left as it was, no
\* generator or installer step is entered, no subprocess is started, and
\* nothing happens after the exit.
C3_ExistingTargetAborts ==
  [][/\ (pc = "pathExists" /\ pathExists(disk, targetPath(config))) =>
          /\ pc' = "exited"
          /\ exitCode' = 1
          /\ disk' = disk
          /\ calls' = calls
          /\ procs' = procs
     /\ (pc = "exited" /\ Last(calls) = "pathExists") =>
          /\ disk[targetPath(config)] = OldTree
          /\ UNCHANGED vars]_vars

C3_Witness ==
  /\ pc = "exited"
  /\ exitCode = 1
  /\ calls = << "promptUser", "pathExists" >>
  /\ disk[targetPath(config)] = OldTree
  /\ procs = << >>

\* events of procs
Started(cmd) == \E i \in 1..Len(procs) : procs[i] = << "start", cmd >>
Exited(cmd, code) == \E i \in 1..Len(procs) : procs[i] = << "exit", cmd, code >>
IsInstallCmd(cmd) == cmd[1] \in {"npm", "npx"}
IsGitCmd(cmd) == cmd[1] = "git"
InstallFailed ==
  \E i \in 1..Len(procs) :
    procs[i][1] = "exit" /\ IsInstallCmd(procs[i][2]) /\ procs[i][3] # 0
GitFailed ==
  \E i \in 1..Len(procs) :
    procs[i][1] = "exit" /\ IsGitCmd(procs[i][2]) /\ procs[i][3] # 0
Printed(line) == line \in Range(stdout)
SuccessPrinted == Printed("Success! Your project is ready!")

\* C4: a failure inside generate() or of any npm/npx invocation ends the run
\* there: the error is the last thing printed, the exit code is 1, the failed
\* child is the last subprocess event, initGit is never entered, no git
\* command is started and the success message is not printed.
C4_FatalFailureStops ==
  /\ InstallFailed =>
       /\ pc = "exited"
       /\ exitCode = 1
       /\ Last(calls) = "installDependencies"
       /\ Last(procs)[1] = "exit" /\ Last(procs)[3] # 0
       /\ Last(stdout) = "Error:"
       /\ Printed("Failed to install dependencies")
       /\ \A i \in 1..Len(procs) : ~IsGitCmd(procs[i][2])
       /\ ~SuccessPrinted
  /\ (pc = "exited" /\ Last(calls) = "generate") =>
       /\ exitCode = 1
       /\ Last(stdout) = "Error:"
       /\ procs = << >>
       /\ ~SuccessPrinted

C4_Witness ==
  /\ pc = "exited"
  /\ exitCode = 1
  /\ Exited(<< "npm", "install", "--save-dev", "drizzle-kit", "@types/pg" >>, 1)
  /\ Last(stdout) = "Error:"

\* C5: a failing git command ends initGit with a warning instead of an
\* error: no further git command is started, the success message is
\* printed and the process exits with code 0.
C5_GitFailureIsWarning ==
  GitFailed =>
    /\ pc = "exited"
    /\ exitCode = 0
    /\ Last(procs)[1] = "exit" /\ Last(procs)[3] # 0
    /\ Cardinality({i \in 1..Len(procs) : procs[i][1] = "exit" /\ procs[i][3] # 0}) = 1
    /\ Printed("Failed to initialize git")
    /\ Printed("You can initialize git manually later")
    /\ SuccessPrinted
    /\ ~Printed("Error:")
    /\ Last(calls) = "showSuccessMessage"

C5_Witness ==
  /\ pc = "exited"
  /\ exitCode = 0
  /\ Exited(<< "git", "config", "user.name", "User" >>, 1)
  /\ ~Started(<< "git", "add", "." >>)
  /\ SuccessPrinted

\* the six steps of program.action, in order
Pipeline ==
  << "promptUser", "pathExists", "generate", "installDependencies", "initGit",
     "showSuccessMessage" >>

\* the pipeline step each await belongs to
StepOf(site) ==
  CASE site \in PromptSites -> "promptUser"
    [] site = "pathExists" -> "pathExists"
    [] site \in {"copyTemplate", "configureDatabase", "updatePackageJson",
                 "removeDockerFiles", "cleanGitFiles"} -> "generate"
    [] site \in InstallSites -> "installDependencies"
    [] site \in GitSites -> "initGit"

\* the steps are entered in pipeline order, one at a time, none twice
InOrder ==
  /\ IsPrefix(calls, Pipeline)
  /\ (pc \notin {"action", "exited"}) => Last(calls) = StepOf(pc)
  /\ (pc # "exited") <=> (exitCode = Running)

\* C6 as stated: the run ends in success, in the abort of the target check
\* or in the abort of a failed dependency install, and nowhere else (read
\* for the runs in which promptUser has returned a config).
C6_TwoAbortPoints ==
  /\ InOrder
  /\ (pc = "exited" /\ ConfigKnown) =>
       \/ exitCode = 0 /\ calls = Pipeline
       \/ exitCode = 1 /\ Last(calls) = "pathExists"
       \/ exitCode = 1 /\ Last(calls) = "installDependencies"

\* C6 (amended): the steps run in pipeline order, one at a time, and the run
\* ends either in success (exit 0, all six steps entered) or with exit 1 in
\* one of the first four steps: a rejected prompt, an existing target, a
\* failure while materializing the template, a failed dependency install.
\* initGit and the success message never end the run with exit 1.
C6_OrderAndTerminals ==
  /\ InOrder
  /\ pc = "exited" =>
       \/ exitCode = 0 /\ calls = Pipeline /\ SuccessPrinted
       \/ /\ exitCode = 1
          /\ Last(calls) \in {"promptUser", "pathExists", "generate", "installDependencies"}
          /\ ~SuccessPrinted
          /\ (Last(calls) = "pathExists") <=> Printed("already exists!")
          /\ (Last(calls) # "pathExists") <=> Printed("Error:")

C6_Witness ==
  /\ pc = "exited"
  /\ exitCode = 1
  /\ Last(calls) = "generate"
  /\ Printed("Error:")
  /\ pathExists(disk, targetPath(config))

\* git init, user.email, user.name, add and commit have all exited with 0
GitSucceeded ==
  /\ Len(procs) > 0
  /\ Last(procs) = Exit("git_commit", config, 0)

\* C7: when generate() has returned the target has no .git, whatever the
\* template held, and it has none until git init runs; when initGit has
\* succeeded the target has a .git that git init created.
C7_FreshGitDirectory ==
  /\ (GenerateCompleted /\ ~Started(<< "git", "init" >>)) => ~Exists(Target, gitDir)
  /\ (GenerateCompleted /\ Exists(Target, gitHead)) => Target[gitHead].tag = "fresh"
  /\ (pc = "exited" /\ ConfigKnown /\ GitSucceeded) =>
       /\ IsDir(Target, gitDir)
       /\ Exists(Target, gitHead)
       /\ Target[gitHead].tag = "fresh"

C7_Witness ==
  /\ pc = "exited"
  /\ GitSucceeded
  /\ Exists(template, gitHead)
  /\ Target[gitHead].tag = "fresh"

\* C8: when generate() has returned, without includeDocker none of the three
\* Docker files is in the target, and with includeDocker every Docker file
\* of the template is in the target.
C8_DockerFiles ==
  GenerateCompleted =>
    /\ ~config["includeDocker"] => \A f \in DockerFiles : ~Exists(Target, f)
    /\ config["includeDocker"] =>
         \A f \in DockerFiles : Exists(template, f) => Exists(Target, f)

C8_Witness ==
  /\ JustGenerated
  /\ ~config["includeDocker"]
  /\ DockerFiles \subseteq DOMAIN template
  /\ \A f \in DockerFiles : ~Exists(Target, f)

DbScriptNames == {"db:migrate", "db:generate", "db:studio", "db:push"}

\* C9: when generate() has returned for postgresql with prisma, the target
\* has prisma/schema.prisma with a datasource db of provider postgresql and
\* package.json has the db:migrate script, the project name and version
\* 0.1.0; for mongodb package.json has no db script the template lacked and
\* the target has no prisma directory.
C9_PrismaSchemaAndManifest ==
  JustGenerated =>
    /\ Target[packageJsonPath].name = config["projectName"]
    /\ Target[packageJsonPath].version = "0.1.0"
    /\ IsPrisma =>
         /\ Exists(Target, schemaPath)
         /\ Target[schemaPath].tag = "schema"
         /\ Target[schemaPath].datasource.name = "db"
         /\ Target[schemaPath].datasource.provider = "postgresql"
         /\ "db:migrate" \in DOMAIN Target[packageJsonPath].scripts
         /\ Target[packageJsonPath].scripts["db:migrate"] = "prisma migrate dev"
    /\ IsMongo =>
         /\ DOMAIN Target[packageJsonPath].scripts \cap DbScriptNames
              = DOMAIN TemplatePackageJson.scripts \cap DbScriptNames
         /\ \A p \in DOMAIN Target : ~IsPrefix(prismaDir, p)

C9_Witness ==
  /\ JustGenerated
  /\ IsPrisma
  /\ ~Exists(template, prismaDir)
  /\ Target[schemaPath] = schemaContent
  /\ Target[packageJsonPath].name = NameDemo

\* the npm/npx commands started so far, in order
RECURSIVE InstallStarts(_)
InstallStarts(evs) ==
  IF evs = << >> THEN << >>
  ELSE LET e == evs[1] IN
       (IF e[1] = "start" /\ IsInstallCmd(e[2]) THEN << e[2] >> ELSE << >>)
       \o InstallStarts(Tail(evs))

\* the invocations installDependencies is to make for a valid config
ExpectedInstalls ==
  IF IsMongo THEN << <<"npm", "install">>, <<"npm", "install", "mongoose">> >>
  ELSE IF IsPrisma THEN
    << <<"npm", "install">>, <<"npm", "install", "@prisma/client@^6.0.0">>,
       <<"npm", "install", "--save-dev", "prisma@^6.0.0">>, <<"npx", "prisma", "generate">> >>
  ELSE
    << <<"npm", "install">>, <<"npm", "install", "drizzle-orm", "pg">>,
       <<"npm", "install", "--save-dev", "drizzle-kit", "@types/pg">> >>

\* C10: the children of installDependencies are started one at a time in the
\* order base install, runtime install, --save-dev install, prisma generate;
\* each is started only when the one before has exited with 0, nothing is
\* started after a failure, and npx prisma generate is started exactly for
\* postgresql with prisma, when the schema is written and prisma installed.
C10_InstallOrder ==
  /\ \A i \in 1..Len(procs) :
       /\ procs[i][1] = "exit" => (i > 1 /\ procs[i - 1] = << "start", procs[i][2] >>)
       /\ (procs[i][1] = "start" /\ i > 1) =>
            (procs[i - 1][1] = "exit" /\ procs[i - 1][3] = 0)
  /\ (running = None) <=> (procs = << >> \/ Last(procs)[1] = "exit")
  /\ ConfigKnown =>
       /\ IsPrefix(InstallStarts(procs), ExpectedInstalls)
       /\ Entered("initGit") => InstallStarts(procs) = ExpectedInstalls
       /\ Started(<< "npx", "prisma", "generate" >>) =>
            /\ IsPrisma
            /\ Exists(Target, schemaPath)
            /\ Exited(<< "npm", "install", "--save-dev", "prisma@^6.0.0" >>, 0)
            /\ "prisma@^6.0.0" \in Target[packageJsonPath].devDependencies
            /\ "@prisma/client@^6.0.0" \in Target[packageJsonPath].dependencies

C10_Witness ==
  /\ Entered("initGit")
  /\ IsPrisma
  /\ Exited(<< "npx", "prisma", "generate" >>, 0)
  /\ InstallStarts(procs) = ExpectedInstalls

\* the awaits that follow copyTemplate up to the end of installDependencies
LaterSites ==
  {"configureDatabase", "updatePackageJson", "removeDockerFiles", "cleanGitFiles"}
  \cup InstallSites

\* the entries the generator step at site deletes on purpose
StepRemoves(site) ==
  CASE site = "configureDatabase" -> ConnFiles \cup {prismaDir, drizzleDir, drizzleConfig}
    [] site = "removeDockerFiles" -> DockerFiles
    [] site = "cleanGitFiles" -> {gitDir}
    [] OTHER -> {}

\* C11: when a step after copyTemplate fails (a later generator step or an
\* npm/npx invocation), the process exits with code 1 and leaves the target
\* directory with everything in it that the failing step did not itself
\* delete; no step ever removes a project directory, and a later run that
\* finds the directory at its check exits with code 1 without touching it.
C11_NoRollback ==
  [][/\ (pc \in LaterSites /\ pc' = "exited") =>
          /\ exitCode' = 1
          /\ pathExists(disk', targetPath(config))
          /\ \A p \in DOMAIN disk[targetPath(config)] :
               \/ p \in DOMAIN disk'[targetPath(config)]
               \/ \E r \in StepRemoves(pc) : IsPrefix(r, p)
     /\ \A name \in ProjectNames : pathExists(disk, name) => pathExists(disk', name)
     /\ (pc = "pathExists" /\ pathExists(disk, targetPath(config))) =>
          /\ pc' = "exited"
          /\ exitCode' = 1
          /\ disk' = disk]_vars

\* a second run has stopped at its check on the directory that a first run
\* left behind when it failed between configureDatabase and updatePackageJson
C11_Witness ==
  /\ Runs = 2
  /\ pc = "exited"
  /\ exitCode = 1
  /\ calls = << "promptUser", "pathExists" >>
  /\ IsDir(Target, << "src" >>)
  /\ ~Exists(Target, mongooseConn)
  /\ Exists(Target, packageJsonPath)
  /\ Target[packageJsonPath].name = TemplatePackageJson.name
====
